---- MODULE Spec2Model ----
(***************************************************************************)
(* The Snowflake -> Azure AI Search pipeline: Pipeline.run and the         *)
(* checkpoint store (src/src/orchestration/pipeline.py), with the          *)
(* extractor, the embedder and the indexer it drives.  The source table,   *)
(* the embedding provider, the index backend and the file system are the   *)
(* environment: each of their calls either returns or raises, chosen       *)
(* nondeterministically.                                                    *)
(***************************************************************************)
EXTENDS Integers, Sequences, FiniteSets, TLC

\* Rows the source table ever holds (watermarks 0 .. MaxRows-1).
MaxRows == 2
\* Pipeline runs started in one behaviour.
MaxRuns == 2
\* config.batch_size as read from the environment (BATCH_SIZE).
BatchSize == 1
\* generate_embeddings_batch's default max_retries.
max_retries == 3
\* Longest list of texts or of documents given to a component method.
MaxItems == 3
\* Largest batch_size given to a component method.
MaxBatchSize == 2
\* Largest max_retries given to generate_embeddings_batch.
MaxRetries == 2
\* Longest list of documents of each of two runs that index at the same time.
MaxRaceDocs == 2
\* Longest text given to chunk_text.
MaxTextLen == 5
\* Largest chunk_size given to chunk_text.
MaxChunkSize == 3
\* Largest overlap given to chunk_text.
MaxOverlap == 3
\* Method calls made on one extractor object.
MaxExtractorCalls == 3
\* The texts and the document ids.
Items == {1, 2}
\* The values of retry_delay, in seconds.
RetryDelays == {1, 5}
\* The vector dimensions of an index schema.
Dimensions == {1, 2}

VARIABLES
    source,           \* the source table: the watermark (= id) of every row
    checkpoint_file,  \* the checkpoint file on disk
    index,            \* the search index: whether it exists, and its document ids
    pc,               \* where the current run of Pipeline.run stands
    run,              \* the locals of the current run
    stats,            \* the statistics dictionary of the current run
    clock,            \* runs started so far (the value datetime.utcnow() yields)
    file_at_start,    \* history: checkpoint_file when the current run started
    last_saved,       \* history: the last checkpoint document completely written
    calls,            \* history: external calls made by the current run
    submitted,        \* history: the rows handed to upload_documents so far
    unit              \* one component method called on its own, as the tests call it

vars == <<source, checkpoint_file, index, pc, run, stats, clock,
          file_at_start, last_saved, calls, submitted, unit>>

----------------------------------------------------------------------------
(* Python values.  kind "np" is a numpy/pandas scalar, what                *)
(* df[watermark_column].max() yields; kind "str" with n is the text str(n);*)
(* kind "missing" is a key a dictionary does not hold.                     *)

None == [kind |-> "none", n |-> 0]
Missing == [kind |-> "missing", n |-> 0]
PyInt(n) == [kind |-> "int", n |-> n]
NpInt(n) == [kind |-> "np", n |-> n]
Str(n) == [kind |-> "str", n |-> n]

\* bool(v): None, 0 and numpy 0 are falsy; every str(n) is a non-empty string.
Truthy(v) ==
    CASE v.kind = "none" -> FALSE
      [] v.kind = "missing" -> FALSE
      [] v.kind = "int" -> v.n # 0
      [] v.kind = "np" -> v.n # 0
      [] OTHER -> TRUE

\* dict.get(key): None for a key the dictionary does not hold.
DictGet(d, key) == IF d[key].kind = "missing" THEN None ELSE d[key]

\* {} as load_checkpoint returns it.
EmptyCheckpoint ==
    [last_watermark |-> Missing, last_run |-> Missing, rows_processed |-> Missing]

\* Faulty variant of JsonValue: default=int, the number is written as a number.
JsonValueAsNumber(v) == IF v.kind = "np" THEN PyInt(v.n) ELSE v

\* json.dump(..., default=str) of one value: JSON-native values are written
\* as they are, any other object through str().
JsonValue(v) == IF v.kind = "np" THEN Str(v.n) ELSE v

JsonDump(checkpoint) ==
    [key \in DOMAIN checkpoint |-> JsonValue(checkpoint[key])]

\* The checkpoint file: absent, holding a complete JSON document, or holding
\* text that json.load rejects (empty after truncation, or cut short).
AbsentFile == [state |-> "absent", data |-> EmptyCheckpoint]
CorruptFile == [state |-> "corrupt", data |-> EmptyCheckpoint]
JsonFile(doc) == [state |-> "json", data |-> doc]

\* Faulty variant of LoadCheckpointResult: no try/except around json.load.
LoadCheckpointUnguarded(file) ==
    IF file.state = "absent"
    THEN [raised |-> FALSE, checkpoint |-> EmptyCheckpoint]
    ELSE IF file.state = "json"
         THEN [raised |-> FALSE, checkpoint |-> file.data]
         ELSE [raised |-> TRUE, checkpoint |-> EmptyCheckpoint]

\* Pipeline.load_checkpoint: its result, and whether it raised.
LoadCheckpointResult(file) ==
    IF file.state = "absent"
    THEN [raised |-> FALSE, checkpoint |-> EmptyCheckpoint]
    ELSE IF file.state = "json"
         THEN [raised |-> FALSE, checkpoint |-> file.data]
         ELSE [raised |-> FALSE, checkpoint |-> EmptyCheckpoint]

load_checkpoint(file) == LoadCheckpointResult(file).checkpoint

----------------------------------------------------------------------------
(* Sequences of rows.                                                      *)

Range(s) == {s[k] : k \in 1..Len(s)}

RECURSIVE SetMax(_)
SetMax(S) ==
    IF Cardinality(S) = 1
    THEN CHOOSE x \in S : TRUE
    ELSE LET x == CHOOSE y \in S : TRUE
             m == SetMax(S \ {x})
         IN IF x > m THEN x ELSE m

\* Every ordering of a finite set of rows.
Orderings(S) ==
    {s \in [1..Cardinality(S) -> S] : \A a, b \in 1..Cardinality(S) : a # b => s[a] # s[b]}

Ascending(s) == \A a, b \in 1..Len(s) : a < b => s[a] < s[b]

\* documents[i:i + batch_size], with i counted from 0.
Slice(s, i, size) ==
    [k \in 1..(IF i + size <= Len(s) THEN size ELSE Len(s) - i) |-> s[i + k]]

----------------------------------------------------------------------------
(* SnowflakeExtractor.extract_data: the data frames the query can return.  *)
(* The WHERE clause is added only when both the column and the value are   *)
(* truthy; ORDER BY only with a column, so without one the rows come in    *)
(* any order.                                                              *)

\* Faulty variant of extract_data: the comparison of the WHERE clause is the
\* wrong way round.
extract_data_older(rows, watermark_column, watermark_value) ==
    LET matching == IF watermark_column /\ Truthy(watermark_value)
                    THEN {r \in rows : r < watermark_value.n}
                    ELSE rows
    IN IF watermark_column
       THEN {s \in Orderings(matching) : Ascending(s)}
       ELSE Orderings(matching)

extract_data(rows, watermark_column, watermark_value) ==
    LET matching == IF watermark_column /\ Truthy(watermark_value)
                    THEN {r \in rows : r > watermark_value.n}
                    ELSE rows
    IN IF watermark_column
       THEN {s \in Orderings(matching) : Ascending(s)}
       ELSE Orderings(matching)

----------------------------------------------------------------------------
(* Pipeline.run                                                            *)

Rest == {"idle", "done", "raised", "killed"}

InitStats ==
    [rows_extracted |-> 0, rows_embedded |-> 0, rows_indexed |-> 0,
     errors |-> <<>>, total_documents_in_index |-> -1, end_time |-> FALSE]

NoCalls ==
    [connect |-> 0, query |-> 0, embed |-> 0, get_index |-> 0, delete_index |-> 0,
     create_index |-> 0, upload |-> 0, save |-> 0, count |-> 0, sleep |-> 0,
     load |-> 0]

NewRun(incremental, recreate_index, table_name, watermark_column) ==
    [incremental |-> incremental, recreate_index |-> recreate_index,
     table_name |-> table_name, watermark_column |-> watermark_column,
     checkpoint |-> EmptyCheckpoint, last_watermark |-> None,
     connection |-> "none", df |-> <<>>, embeddings |-> <<>>, embedded |-> FALSE,
     i |-> 0, retry_count |-> 0, indexed_count |-> 0, failed_count |-> 0,
     new_checkpoint |-> EmptyCheckpoint, saved |-> FALSE, after_reset |-> FALSE]

\* No component method is being called on its own.
NoUnit == [fn |-> "none"]

\* The pipeline before its first run.
PipelineInit ==
    /\ source = {}
    /\ checkpoint_file = AbsentFile
    /\ index = [exists |-> FALSE, docs |-> {}]
    /\ pc = "idle"
    /\ run = NewRun(FALSE, FALSE, TRUE, FALSE)
    /\ stats = InitStats
    /\ clock = 0
    /\ file_at_start = AbsentFile
    /\ last_saved = EmptyCheckpoint
    /\ calls = NoCalls
    /\ submitted = {}

Init ==
    /\ PipelineInit
    /\ unit = NoUnit

\* Faulty variant of Abort: the error is recorded and run returns its
\* statistics.
AbortReturns(e) ==
    /\ stats' = [stats EXCEPT !.errors = Append(@, e), !.end_time = TRUE]
    /\ pc' = "done"

\* Faulty variant of Abort: the error is not recorded.
AbortUnrecorded(e) ==
    /\ stats' = [stats EXCEPT !.end_time = TRUE]
    /\ pc' = "raised"

\* The except and finally blocks of run: the error is appended to
\* stats["errors"], end_time is set, and the exception goes to the caller.
Abort(e) ==
    /\ stats' = [stats EXCEPT !.errors = Append(@, e), !.end_time = TRUE]
    /\ pc' = "raised"

\* Faulty variant of TableNameMissing: the table name is not looked at.
TableNameNeverMissing(table_name) == FALSE

\* if not table_name: raise ValueError(...).
TableNameMissing(table_name) == ~table_name

\* The source table grows by one row with the next watermark, at any time.
AppendRow ==
    /\ Cardinality(source) < MaxRows
    /\ source' = source \cup {Cardinality(source)}
    /\ UNCHANGED <<unit, submitted, checkpoint_file, index, pc, run, stats, clock,
                   file_at_start, last_saved, calls>>

\* run() up to the table_name check.  incremental_arg is the argument
\* ("none" for None), cfg_incremental the configured default.  after_reset
\* records that main() called reset_checkpoint right before this run.
StartRun(incremental_arg, cfg_incremental, recreate_index, table_name, watermark_column) ==
    /\ pc \in Rest
    /\ clock < MaxRuns
    /\ clock' = clock + 1
    /\ LET incremental == IF incremental_arg = "none" THEN cfg_incremental
                          ELSE incremental_arg = "true"
       IN /\ run' = [NewRun(incremental, recreate_index, table_name, watermark_column)
                       EXCEPT !.after_reset = (pc = "idle" /\ clock > 0)]
          /\ IF TableNameMissing(table_name)
             THEN /\ pc' = "raised"
                  /\ stats' = [InitStats EXCEPT !.errors = <<"table_name not configured">>,
                                                !.end_time = TRUE]
             ELSE /\ pc' = IF incremental THEN "load" ELSE "connect"
                  /\ stats' = InitStats
    /\ file_at_start' = checkpoint_file
    /\ calls' = NoCalls
    /\ UNCHANGED <<unit, submitted, source, checkpoint_file, index, last_saved>>

\* checkpoint = self.load_checkpoint(); last_watermark = checkpoint.get(...)
LoadCheckpoint ==
    /\ pc = "load"
    /\ LET res == LoadCheckpointResult(checkpoint_file)
       IN IF res.raised
          THEN /\ Abort("load_checkpoint failed")
               /\ run' = run
          ELSE /\ run' = [run EXCEPT !.checkpoint = res.checkpoint,
                                     !.last_watermark = DictGet(res.checkpoint, "last_watermark")]
               /\ pc' = "connect"
               /\ stats' = stats
    /\ calls' = [calls EXCEPT !.load = @ + 1]
    /\ UNCHANGED <<unit, submitted, source, checkpoint_file, index, clock, file_at_start, last_saved>>

\* Faulty variant of disconnect: the connection is left as it is.
disconnect_nothing(connection) == connection

\* SnowflakeExtractor.disconnect, which __exit__ calls: an open connection
\* is closed.
disconnect(connection) == IF connection = "open" THEN "closed" ELSE connection

\* with self.extractor as extractor: __enter__ connects.
Connect ==
    /\ pc = "connect"
    /\ calls' = [calls EXCEPT !.connect = @ + 1]
    /\ \E ok \in BOOLEAN :
         IF ok
         THEN /\ run' = [run EXCEPT !.connection = "open"]
              /\ pc' = "row_count"
              /\ stats' = stats
         ELSE /\ Abort("connect failed")
              /\ run' = run
    /\ UNCHANGED <<unit, submitted, source, checkpoint_file, index, clock, file_at_start, last_saved>>

\* Faulty variant of GetRowCount: a table that counts no rows ends the run
\* before the extraction.
GetRowCountDecides ==
    /\ pc = "row_count"
    /\ calls' = [calls EXCEPT !.query = @ + 1]
    /\ \E ok \in BOOLEAN :
         IF ok
         THEN IF source = {}
              THEN /\ pc' = "done"
                   /\ run' = [run EXCEPT !.connection = disconnect(@)]
                   /\ stats' = [stats EXCEPT !.end_time = TRUE]
              ELSE /\ pc' = "extract"
                   /\ UNCHANGED <<run, stats>>
         ELSE /\ Abort("get_row_count failed")
              /\ run' = [run EXCEPT !.connection = disconnect(@)]
    /\ UNCHANGED <<unit, submitted, source, checkpoint_file, index, clock, file_at_start, last_saved>>

\* extractor.get_row_count(table_name); an exception leaves the with block,
\* whose __exit__ disconnects.
GetRowCount ==
    /\ pc = "row_count"
    /\ calls' = [calls EXCEPT !.query = @ + 1]
    /\ \E ok \in BOOLEAN :
         IF ok
         THEN /\ pc' = "extract"
              /\ UNCHANGED <<run, stats>>
         ELSE /\ Abort("get_row_count failed")
              /\ run' = [run EXCEPT !.connection = disconnect(@)]
    /\ UNCHANGED <<unit, submitted, source, checkpoint_file, index, clock, file_at_start, last_saved>>

\* Faulty variant of AfterExtract: the checkpoint is written as soon as the
\* rows are extracted.
AfterExtractSavesFirst(df) == IF Len(df) = 0 THEN "done" ELSE "save"

\* Faulty variant of AfterExtract: the rows go to the indexer as they are.
AfterExtractSkipsEmbedding(df) == IF Len(df) = 0 THEN "done" ELSE "create_index"

\* Faulty variant of AfterExtract: no early return.
AfterExtractNoReturn(df) == "embed"

\* if df.empty: return stats.
AfterExtract(df) == IF Len(df) = 0 THEN "done" ELSE "embed"

\* extractor.extract_data(...), the end of the with block, rows_extracted
\* and the return on an empty data frame.
ExtractData ==
    /\ pc = "extract"
    /\ calls' = [calls EXCEPT !.query = @ + 1]
    /\ \/ \E df \in extract_data(source,
                                 run.incremental /\ run.watermark_column,
                                 IF run.incremental THEN run.last_watermark ELSE None) :
            /\ run' = [run EXCEPT !.connection = disconnect(@), !.df = df]
            /\ pc' = AfterExtract(df)
            /\ stats' = [stats EXCEPT !.rows_extracted = Len(df),
                                      !.end_time = (AfterExtract(df) = "done")]
       \/ /\ Abort("extract_data failed")
          /\ run' = [run EXCEPT !.connection = disconnect(@)]
    /\ UNCHANGED <<unit, submitted, source, checkpoint_file, index, clock, file_at_start, last_saved>>

\* One provider call of generate_embeddings_batch, as embed_dataframe calls
\* it (max_retries at its default), then df["embedding"] = embeddings and
\* rows_embedded once the last batch is in.  The vector of row r is written r.
EmbedBatch ==
    /\ pc = "embed"
    /\ LET batch == Slice(run.df, run.i, BatchSize)
       IN \/ /\ calls' = [calls EXCEPT !.embed = @ + 1]
             /\ IF run.i + BatchSize >= Len(run.df)
                THEN /\ run' = [run EXCEPT !.embeddings = @ \o batch, !.embedded = TRUE,
                                           !.i = 0, !.retry_count = 0]
                     /\ stats' = [stats EXCEPT !.rows_embedded = Len(run.df)]
                     /\ pc' = "create_index"
                ELSE /\ run' = [run EXCEPT !.embeddings = @ \o batch,
                                           !.i = @ + BatchSize, !.retry_count = 0]
                     /\ UNCHANGED <<stats, pc>>
          \/ /\ run' = [run EXCEPT !.retry_count = @ + 1]
             /\ IF run.retry_count + 1 > max_retries
                THEN /\ Abort("embedding failed")
                     /\ calls' = [calls EXCEPT !.embed = @ + 1]
                ELSE /\ calls' = [calls EXCEPT !.embed = @ + 1, !.sleep = @ + 1]
                     /\ UNCHANGED <<stats, pc>>
    /\ UNCHANGED <<unit, submitted, source, checkpoint_file, index, clock, file_at_start, last_saved>>

\* Faulty variant of create_index: with recreate the existing index is not
\* deleted before the create call.
create_index_without_delete(idx, recreate, get_ok, delete_ok, create_ok) ==
    LET found == idx.exists /\ get_ok
    IN IF found /\ ~recreate
       THEN [raised |-> FALSE, index |-> idx, get_index |-> 1, delete_index |-> 0,
             create_index |-> 0, log |-> <<"get_index">>]
       ELSE [raised |-> ~(create_ok /\ ~idx.exists),
             index |-> IF create_ok /\ ~idx.exists
                       THEN [exists |-> TRUE, docs |-> {}] ELSE idx,
             get_index |-> 1, delete_index |-> 0, create_index |-> 1,
             log |-> <<"get_index", "create_index">>]

\* AzureSearchIndexer.create_index.  get_ok, delete_ok and create_ok say
\* whether the backend answers each call; get_index also raises when the
\* index is missing, create_index also when the index is still there.
\* The backend calls are listed in log in the order in which they are made.
create_index(idx, recreate, get_ok, delete_ok, create_ok) ==
    LET found == idx.exists /\ get_ok
        deleted == found /\ recreate /\ delete_ok
        before == IF deleted THEN [exists |-> FALSE, docs |-> {}] ELSE idx
    IN IF found /\ ~recreate
       THEN [raised |-> FALSE, index |-> idx, get_index |-> 1, delete_index |-> 0,
             create_index |-> 0, log |-> <<"get_index">>]
       ELSE [raised |-> ~(create_ok /\ ~before.exists),
             index |-> IF create_ok /\ ~before.exists
                       THEN [exists |-> TRUE, docs |-> {}] ELSE before,
             get_index |-> 1,
             delete_index |-> IF found /\ recreate THEN 1 ELSE 0,
             create_index |-> 1,
             log |-> IF found /\ recreate
                     THEN <<"get_index", "delete_index", "create_index">>
                     ELSE <<"get_index", "create_index">>]

CreateIndex ==
    /\ pc = "create_index"
    /\ \E get_ok, delete_ok, create_ok \in BOOLEAN :
         LET res == create_index(index, run.recreate_index, get_ok, delete_ok, create_ok)
         IN /\ index' = res.index
            /\ calls' = [calls EXCEPT !.get_index = @ + res.get_index,
                                      !.delete_index = @ + res.delete_index,
                                      !.create_index = @ + res.create_index]
            /\ IF res.raised
               THEN Abort("create_index failed")
               ELSE /\ pc' = "index"
                    /\ stats' = stats
    /\ UNCHANGED <<unit, submitted, source, checkpoint_file, run, clock, file_at_start, last_saved>>

\* Faulty variant of AfterIndexing: the run is given up once the batches are
\* in.
AfterIndexingGivesUp(incremental, watermark_column) == "raised"

\* Faulty variant of AfterIndexing: the mode is not looked at.
AfterIndexingAnyMode(incremental, watermark_column) ==
    IF watermark_column THEN "save" ELSE "count"

\* Where run goes once index_dataframe has returned.
AfterIndexing(incremental, watermark_column) ==
    IF incremental /\ watermark_column THEN "save" ELSE "count"

\* One upload_documents call of index_documents: the backend acknowledges
\* the documents of `succeeded`, or the call raises and the whole batch
\* counts as failed.  After the last batch, rows_indexed = len(df).
IndexBatch ==
    /\ pc = "index"
    /\ LET batch == Slice(run.df, run.i, BatchSize)
           last == run.i + BatchSize >= Len(run.df)
       IN /\ \/ \E succeeded \in SUBSET Range(batch) :
                  /\ index' = [index EXCEPT !.docs = @ \cup succeeded]
                  /\ run' = [run EXCEPT
                               !.indexed_count = @ + Cardinality(succeeded),
                               !.failed_count = @ + (Len(batch) - Cardinality(succeeded)),
                               !.i = @ + BatchSize]
             \/ /\ index' = index
                /\ run' = [run EXCEPT !.failed_count = @ + Len(batch),
                                      !.i = @ + BatchSize]
          /\ IF last
             THEN /\ stats' = [stats EXCEPT !.rows_indexed = Len(run.df)]
                  /\ pc' = AfterIndexing(run.incremental, run.watermark_column)
             ELSE UNCHANGED <<stats, pc>>
    /\ calls' = [calls EXCEPT !.upload = @ + 1]
    /\ submitted' = submitted \cup Range(Slice(run.df, run.i, BatchSize))
    /\ UNCHANGED <<unit, source, checkpoint_file, clock, file_at_start, last_saved>>

\* Faulty variant of NewCheckpoint: the watermark comes from a new query of
\* the source table.
NewCheckpointRequeries(df, now) ==
    [last_watermark |-> NpInt(SetMax(source)),
     last_run |-> Str(now),
     rows_processed |-> PyInt(Cardinality(source))]

\* The checkpoint run builds from the rows it processed.
NewCheckpoint(df, now) ==
    [last_watermark |-> NpInt(SetMax(Range(df))),
     last_run |-> Str(now),
     rows_processed |-> PyInt(Len(df))]

\* open(self.checkpoint_file, 'w'): the file exists and is empty.
OpenForWrite(file) == CorruptFile

\* Faulty variant of WrittenFile: the document does not reach the file.
WrittenFileEmpty(checkpoint) == CorruptFile

\* The file once json.dump has written the whole document.
WrittenFile(checkpoint) == JsonFile(JsonDump(checkpoint))

\* save_checkpoint up to the open: mkdir or open may fail (ok = FALSE),
\* which the except clause logs.
SaveOpenResult(file, ok) ==
    [raised |-> FALSE, opened |-> ok,
     file |-> IF ok THEN OpenForWrite(file) ELSE file]

\* Faulty variant of SaveWriteResult: the failure is not caught.
SaveWriteUncaught(checkpoint, ok) ==
    [raised |-> ~ok, saved |-> ok,
     file |-> IF ok THEN WrittenFile(checkpoint) ELSE CorruptFile]

\* save_checkpoint from json.dump on: the document is written whole, or the
\* write fails partway (ok = FALSE), which the except clause logs.
SaveWriteResult(checkpoint, ok) ==
    [raised |-> FALSE, saved |-> ok,
     file |-> IF ok THEN WrittenFile(checkpoint) ELSE CorruptFile]

SaveOpen ==
    /\ pc = "save"
    /\ run' = [run EXCEPT !.new_checkpoint = NewCheckpoint(run.df, clock)]
    /\ calls' = [calls EXCEPT !.save = @ + 1]
    /\ \E ok \in BOOLEAN :
         LET res == SaveOpenResult(checkpoint_file, ok)
         IN /\ checkpoint_file' = res.file
            /\ IF res.raised
               THEN Abort("save_checkpoint failed")
               ELSE /\ pc' = IF res.opened THEN "save_write" ELSE "count"
                    /\ stats' = stats
    /\ UNCHANGED <<unit, submitted, source, index, clock, file_at_start, last_saved>>

SaveWrite ==
    /\ pc = "save_write"
    /\ \E ok \in BOOLEAN :
         LET res == SaveWriteResult(run.new_checkpoint, ok)
         IN /\ checkpoint_file' = res.file
            /\ run' = [run EXCEPT !.saved = res.saved]
            /\ last_saved' = IF res.saved THEN res.file.data ELSE last_saved
            /\ IF res.raised
               THEN Abort("save_checkpoint failed")
               ELSE /\ pc' = "count"
                    /\ stats' = stats
    /\ UNCHANGED <<unit, submitted, source, index, clock, file_at_start, calls>>

\* total_indexed = self.indexer.get_document_count(), then the finally block.
GetDocumentCount ==
    /\ pc = "count"
    /\ calls' = [calls EXCEPT !.count = @ + 1]
    /\ \/ /\ stats' = [stats EXCEPT !.total_documents_in_index = Cardinality(index.docs),
                                    !.end_time = TRUE]
          /\ pc' = "done"
       \/ Abort("get_document_count failed")
    /\ UNCHANGED <<unit, submitted, source, checkpoint_file, index, run, clock, file_at_start, last_saved>>

\* The process is terminated in the middle of a run: its locals are gone.
Kill ==
    /\ pc \notin Rest
    /\ pc' = "killed"
    /\ run' = NewRun(FALSE, FALSE, TRUE, FALSE)
    /\ stats' = InitStats
    /\ calls' = NoCalls
    /\ UNCHANGED <<unit, submitted, source, checkpoint_file, index, clock, file_at_start, last_saved>>

\* Faulty variant of reset_checkpoint: only a readable checkpoint is removed.
reset_checkpoint_readable_only(file) ==
    IF file.state = "json" THEN AbsentFile ELSE file

\* Pipeline.reset_checkpoint: the file after the call.
reset_checkpoint(file) == IF file.state # "absent" THEN AbsentFile ELSE file

\* run_pipeline.py --reset-checkpoint: a new process, before its run.
ResetCheckpoint ==
    /\ pc \in Rest
    /\ checkpoint_file' = reset_checkpoint(checkpoint_file)
    /\ last_saved' = EmptyCheckpoint
    /\ pc' = "idle"
    /\ run' = NewRun(FALSE, FALSE, TRUE, FALSE)
    /\ stats' = InitStats
    /\ calls' = NoCalls
    /\ file_at_start' = checkpoint_file'
    /\ UNCHANGED <<unit, submitted, source, index, clock>>

RunStep ==
    \/ LoadCheckpoint
    \/ Connect
    \/ GetRowCount
    \/ ExtractData
    \/ EmbedBatch
    \/ CreateIndex
    \/ IndexBatch
    \/ SaveOpen
    \/ SaveWrite
    \/ GetDocumentCount
    \/ Kill

Next ==
    \/ AppendRow
    \/ \E incremental_arg \in {"none", "true", "false"},
          cfg_incremental, recreate_index, table_name, watermark_column \in BOOLEAN :
         StartRun(incremental_arg, cfg_incremental, recreate_index, table_name, watermark_column)
    \/ RunStep
    \/ ResetCheckpoint

Spec == Init /\ [][Next]_vars

\* Sequential incremental runs only, with no checkpoint reset and no
\* recreate_index.
NextIncremental ==
    \/ AppendRow
    \/ \E table_name, watermark_column \in BOOLEAN :
         StartRun("true", FALSE, FALSE, table_name, watermark_column)
    \/ RunStep

SpecIncremental == Init /\ [][NextIncremental]_vars

----------------------------------------------------------------------------
(* Component methods called on their own, with arguments drawn from small  *)
(* sets.  unit holds the call: its arguments, the locals of the method,    *)
(* how it ended, and a log of the external calls it made.                  *)

\* The pipeline's variables, which a component call leaves alone.
pipeline_vars == <<source, checkpoint_file, index, pc, run, stats, clock,
                   file_at_start, last_saved, calls, submitted>>

\* Lists of at most MaxItems texts or documents.
ItemLists == UNION {[1..n -> Items] : n \in 0..MaxItems}

\* The vector the provider returns for a text.
Embedding(text) == [vector_of |-> text]

\* One entry of the log of an embedder call.
EmbedEvent(ev, at, delay) == [ev |-> ev, at |-> at, delay |-> delay]

\* generate_embeddings_batch(texts, batch_size, max_retries, retry_delay)
\* entered: embeddings = [], the loop at i = 0, retry_count = 0.
EmbedCalls ==
    {[fn |-> "generate_embeddings_batch", texts |-> texts, batch_size |-> batch_size,
      max_retries |-> retries, retry_delay |-> retry_delay,
      embeddings |-> <<>>, i |-> 0, retry_count |-> 0,
      status |-> IF Len(texts) = 0 THEN "returned" ELSE "running",
      log |-> <<>>] :
        texts \in ItemLists, batch_size \in 1..MaxBatchSize,
        retries \in 0..MaxRetries, retry_delay \in RetryDelays}

\* Faulty variant of EmbedSucceeds: retry_count is set to zero once, before
\* the loop over the batches.
EmbedSucceedsKeepCount(c) ==
    LET batch == Slice(c.texts, c.i, c.batch_size)
    IN [c EXCEPT !.embeddings = @ \o [k \in 1..Len(batch) |-> Embedding(batch[k])],
                 !.i = @ + c.batch_size,
                 !.log = Append(@, EmbedEvent("ok", c.i, 0)),
                 !.status = IF c.i + c.batch_size >= Len(c.texts)
                            THEN "returned" ELSE "running"]

\* Faulty variant of EmbedSucceeds: the batch goes in front of the list.
EmbedSucceedsPrepend(c) ==
    LET batch == Slice(c.texts, c.i, c.batch_size)
    IN [c EXCEPT !.embeddings = [k \in 1..Len(batch) |-> Embedding(batch[k])] \o @,
                 !.i = @ + c.batch_size,
                 !.retry_count = 0,
                 !.log = Append(@, EmbedEvent("ok", c.i, 0)),
                 !.status = IF c.i + c.batch_size >= Len(c.texts)
                            THEN "returned" ELSE "running"]

\* The provider answers the batch texts[i:i + batch_size]: its vectors are
\* appended in order, the while loop is left, and the for loop goes to the
\* next batch, where retry_count = 0 again; after the last batch the list
\* is returned.
EmbedSucceeds(c) ==
    LET batch == Slice(c.texts, c.i, c.batch_size)
    IN [c EXCEPT !.embeddings = @ \o [k \in 1..Len(batch) |-> Embedding(batch[k])],
                 !.i = @ + c.batch_size,
                 !.retry_count = 0,
                 !.log = Append(@, EmbedEvent("ok", c.i, 0)),
                 !.status = IF c.i + c.batch_size >= Len(c.texts)
                            THEN "returned" ELSE "running"]

\* Faulty variant of EmbedFails: the sleep comes before the test of
\* retry_count.
EmbedFailsSleepFirst(c) ==
    IF c.retry_count + 1 > c.max_retries
    THEN [c EXCEPT !.retry_count = @ + 1,
                   !.log = @ \o <<EmbedEvent("fail", c.i, 0),
                                  EmbedEvent("sleep", c.i, c.retry_delay)>>,
                   !.status = "raised"]
    ELSE [c EXCEPT !.retry_count = @ + 1,
                   !.log = @ \o <<EmbedEvent("fail", c.i, 0),
                                  EmbedEvent("sleep", c.i, c.retry_delay)>>]

\* The provider call raises: retry_count += 1; past max_retries the
\* exception is raised again, otherwise time.sleep(retry_delay) and the
\* while loop calls the provider again with the same batch.
EmbedFails(c) ==
    IF c.retry_count + 1 > c.max_retries
    THEN [c EXCEPT !.retry_count = @ + 1,
                   !.log = Append(@, EmbedEvent("fail", c.i, 0)),
                   !.status = "raised"]
    ELSE [c EXCEPT !.retry_count = @ + 1,
                   !.log = @ \o <<EmbedEvent("fail", c.i, 0),
                                  EmbedEvent("sleep", c.i, c.retry_delay)>>]

\* One provider call of generate_embeddings_batch and what follows it up to
\* the next provider call.
GenerateEmbeddingsBatch ==
    /\ unit.fn = "generate_embeddings_batch"
    /\ unit.status = "running"
    /\ \E ok \in BOOLEAN :
         unit' = IF ok THEN EmbedSucceeds(unit) ELSE EmbedFails(unit)
    /\ UNCHANGED pipeline_vars

\* index_documents(documents, batch_size) entered: indexed_count = 0,
\* failed_count = 0, the loop at i = 0.
IndexCalls ==
    {[fn |-> "index_documents", documents |-> documents, batch_size |-> batch_size,
      i |-> 0, indexed_count |-> 0, failed_count |-> 0,
      status |-> IF Len(documents) = 0 THEN "returned" ELSE "running",
      log |-> <<>>] :
        documents \in ItemLists, batch_size \in 1..MaxBatchSize}

\* One entry of the log of an index_documents call: the batch uploaded from
\* offset `at`, whether the call was answered or raised, and the two
\* counters after it.
UploadEvent(c, outcome, indexed_count, failed_count) ==
    [at |-> c.i, batch |-> Slice(c.documents, c.i, c.batch_size), outcome |-> outcome,
     indexed_count |-> indexed_count, failed_count |-> failed_count]

\* Faulty variant of UploadAnswered: the loop steps one document too far.
UploadAnsweredSkips(c, succeeded) ==
    LET batch == Slice(c.documents, c.i, c.batch_size)
        ok == Cardinality(succeeded)
    IN [c EXCEPT !.indexed_count = @ + ok,
                 !.failed_count = @ + (Len(batch) - ok),
                 !.i = @ + c.batch_size + 1,
                 !.log = Append(@, UploadEvent(c, "answered", c.indexed_count + ok,
                                               c.failed_count + (Len(batch) - ok))),
                 !.status = IF c.i + c.batch_size + 1 >= Len(c.documents)
                            THEN "returned" ELSE "running"]

\* upload_documents(documents=batch) returns one result per document; the
\* documents at the positions `succeeded` are acknowledged, the others are
\* not.  Each result adds one to indexed_count or to failed_count.
UploadAnswered(c, succeeded) ==
    LET batch == Slice(c.documents, c.i, c.batch_size)
        ok == Cardinality(succeeded)
    IN [c EXCEPT !.indexed_count = @ + ok,
                 !.failed_count = @ + (Len(batch) - ok),
                 !.i = @ + c.batch_size,
                 !.log = Append(@, UploadEvent(c, "answered", c.indexed_count + ok,
                                               c.failed_count + (Len(batch) - ok))),
                 !.status = IF c.i + c.batch_size >= Len(c.documents)
                            THEN "returned" ELSE "running"]

\* Faulty variant of UploadRaises: a failed batch counts batch_size
\* documents.
UploadRaisesCountsBatchSize(c) ==
    [c EXCEPT !.failed_count = @ + c.batch_size,
              !.i = @ + c.batch_size,
              !.log = Append(@, UploadEvent(c, "raised", c.indexed_count,
                                            c.failed_count + c.batch_size)),
              !.status = IF c.i + c.batch_size >= Len(c.documents)
                         THEN "returned" ELSE "running"]

\* Faulty variant of UploadRaises: the exception leaves index_documents.
UploadRaisesStops(c) ==
    [c EXCEPT !.failed_count = @ + Len(Slice(c.documents, c.i, c.batch_size)),
              !.log = Append(@, UploadEvent(c, "raised", c.indexed_count,
                                 c.failed_count + Len(Slice(c.documents, c.i, c.batch_size)))),
              !.status = "raised"]

\* upload_documents raises: the except clause adds len(batch) to
\* failed_count and the for loop goes on with the next batch.
UploadRaises(c) ==
    LET batch == Slice(c.documents, c.i, c.batch_size)
    IN [c EXCEPT !.failed_count = @ + Len(batch),
                 !.i = @ + c.batch_size,
                 !.log = Append(@, UploadEvent(c, "raised", c.indexed_count,
                                               c.failed_count + Len(batch))),
                 !.status = IF c.i + c.batch_size >= Len(c.documents)
                            THEN "returned" ELSE "running"]

\* One upload_documents call of index_documents.
IndexDocuments ==
    /\ unit.fn = "index_documents"
    /\ unit.status = "running"
    /\ \/ \E succeeded \in SUBSET (1..Len(Slice(unit.documents, unit.i, unit.batch_size))) :
            unit' = UploadAnswered(unit, succeeded)
       \/ unit' = UploadRaises(unit)
    /\ UNCHANGED pipeline_vars

\* The watermark values extract_data is called with.
WatermarkValues ==
    {None} \cup {PyInt(n) : n \in 0..MaxRows} \cup {NpInt(n) : n \in 0..MaxRows}
           \cup {Str(n) : n \in 0..MaxRows}

\* extract_data(table_name, watermark_column, watermark_value) about to run
\* its query on a table holding `rows`.
ExtractCalls ==
    {[fn |-> "extract_data", rows |-> rows, watermark_column |-> watermark_column,
      watermark_value |-> watermark_value, status |-> "called", result |-> <<>>] :
        rows \in SUBSET (0..MaxRows), watermark_column \in BOOLEAN,
        watermark_value \in WatermarkValues}

\* The query of extract_data returns its data frame.
ExtractDataCall ==
    /\ unit.fn = "extract_data"
    /\ unit.status = "called"
    /\ \E df \in extract_data(unit.rows, unit.watermark_column, unit.watermark_value) :
         unit' = [unit EXCEPT !.status = "returned", !.result = df]
    /\ UNCHANGED pipeline_vars

\* An index with the dimension of its vector field; a missing index has
\* no documents and dimension 0.
SearchIndex(exists, docs, vector_dimensions) ==
    [exists |-> exists, docs |-> docs, vector_dimensions |-> vector_dimensions]

\* Faulty variant of create_index_with_dimensions: the schema asked for is
\* applied to the index whatever create_index did.
create_index_updates_schema(idx, vector_dimensions, recreate, get_ok, delete_ok, create_ok) ==
    LET res == create_index([exists |-> idx.exists, docs |-> idx.docs],
                            recreate, get_ok, delete_ok, create_ok)
    IN [res EXCEPT !.index = SearchIndex(res.index.exists, res.index.docs,
                                         IF res.index.exists THEN vector_dimensions ELSE 0)]

\* create_index(vector_dimensions, recreate): the schema built from
\* vector_dimensions reaches the backend only through a create_index call
\* that succeeds.
create_index_with_dimensions(idx, vector_dimensions, recreate, get_ok, delete_ok, create_ok) ==
    LET res == create_index([exists |-> idx.exists, docs |-> idx.docs],
                            recreate, get_ok, delete_ok, create_ok)
        created == res.create_index = 1 /\ ~res.raised
    IN [res EXCEPT !.index = SearchIndex(res.index.exists, res.index.docs,
                                         IF created THEN vector_dimensions
                                         ELSE IF res.index.exists THEN idx.vector_dimensions
                                         ELSE 0)]

\* create_index about to be called on a backend whose index is `index`.
CreateIndexCalls ==
    {[fn |-> "create_index", index |-> idx, vector_dimensions |-> vector_dimensions,
      recreate |-> recreate, status |-> "called", get_ok |-> TRUE,
      result |-> [raised |-> FALSE, index |-> idx, get_index |-> 0,
                  delete_index |-> 0, create_index |-> 0, log |-> <<>>]] :
        idx \in {SearchIndex(FALSE, {}, 0)}
                \cup {SearchIndex(TRUE, docs, d) : docs \in SUBSET Items, d \in Dimensions},
        vector_dimensions \in Dimensions, recreate \in BOOLEAN}

\* create_index runs to its end; get_ok records whether get_index was
\* answered by the backend.
CreateIndexCall ==
    /\ unit.fn = "create_index"
    /\ unit.status = "called"
    /\ \E get_ok, delete_ok, create_ok \in BOOLEAN :
         LET res == create_index_with_dimensions(unit.index, unit.vector_dimensions,
                                                 unit.recreate, get_ok, delete_ok, create_ok)
         IN unit' = [unit EXCEPT !.status = IF res.raised THEN "raised" ELSE "returned",
                                 !.get_ok = get_ok, !.result = res]
    /\ UNCHANGED pipeline_vars

\* The two pipeline runs that index at the same time.
Runs == {"A", "B"}

\* The lists of document ids one of the two runs indexes.
RaceIdLists == UNION {[1..n -> Items] : n \in 0..MaxRaceDocs}

\* No content: the id has never been acknowledged.
NoContent == [by |-> "none", pos |-> 0]

\* The document index_dataframe builds from row j of the data frame of a
\* run: the id of the row and its content, written as the run and the row
\* it comes from.
Document(r, ids, j) == [id |-> ids[j], content |-> [by |-> r, pos |-> j]]

\* index_documents entered by run r with the documents of its rows.
RaceCall(r, ids, batch_size) ==
    [fn |-> "index_documents",
     documents |-> [j \in 1..Len(ids) |-> Document(r, ids, j)],
     batch_size |-> batch_size, i |-> 0, indexed_count |-> 0, failed_count |-> 0,
     status |-> IF Len(ids) = 0 THEN "returned" ELSE "running", log |-> <<>>]

\* Two index_documents calls about to run against one empty index; last_ack
\* is history: per id, the content of the last upload the backend
\* acknowledged.
UpsertCalls ==
    {[fn |-> "upsert_race",
      runs |-> [r \in Runs |-> RaceCall(r, ids[r], batch_size)],
      index |-> {}, last_ack |-> [id \in Items |-> NoContent]] :
        ids \in [Runs -> RaceIdLists], batch_size \in 1..MaxBatchSize}

\* Faulty variant of UploadDocument: the document is added next to the one
\* the index holds for the id.
UploadDocumentAppends(docs, d) == docs \cup {d}

\* Faulty variant of UploadDocument: the document takes the place of the
\* whole index.
UploadDocumentReplacesAll(docs, d) == {d}

\* The upload action of the backend on one document: the document takes the
\* place of the one the index holds for its id, if any.
UploadDocument(docs, d) == {e \in docs : e.id # d.id} \cup {d}

\* search_client.upload_documents(documents=batch) on the index `docs`: the
\* documents at the positions `succeeded` are applied in the order of the
\* batch, from position k on.
RECURSIVE upload_documents(_, _, _, _)
upload_documents(docs, batch, succeeded, k) ==
    IF k > Len(batch)
    THEN docs
    ELSE upload_documents(IF k \in succeeded THEN UploadDocument(docs, batch[k]) ELSE docs,
                          batch, succeeded, k + 1)

\* last_ack after the same call.
LastAcknowledged(last_ack, batch, succeeded) ==
    [id \in Items |->
        LET at == {k \in succeeded : batch[k].id = id}
        IN IF at = {} THEN last_ack[id] ELSE batch[SetMax(at)].content]

\* One upload_documents call of one of the two runs; the log of the call is
\* not kept.
UpsertRace ==
    /\ unit.fn = "upsert_race"
    /\ \E r \in Runs :
         /\ unit.runs[r].status = "running"
         /\ LET c == unit.runs[r]
                batch == Slice(c.documents, c.i, c.batch_size)
            IN \/ \E succeeded \in SUBSET (1..Len(batch)) :
                    unit' = [unit EXCEPT
                               !.runs[r] = [UploadAnswered(c, succeeded) EXCEPT !.log = <<>>],
                               !.index = upload_documents(@, batch, succeeded, 1),
                               !.last_ack = LastAcknowledged(@, batch, succeeded)]
               \/ unit' = [unit EXCEPT !.runs[r] = [UploadRaises(c) EXCEPT !.log = <<>>]]
    /\ UNCHANGED pipeline_vars

\* A text of n characters; character k is written k.
Text(n) == [k \in 1..n |-> k]

\* A Python slice bound on a sequence of n items: a negative bound counts
\* from the end, and every bound is clipped to 0..n.
SliceBound(b, n) ==
    IF b < 0 THEN (IF b + n < 0 THEN 0 ELSE b + n)
    ELSE (IF b > n THEN n ELSE b)

\* text[start:end].
PySlice(text, start, end) ==
    LET lo == SliceBound(start, Len(text))
        hi == SliceBound(end, Len(text))
    IN [k \in 1..(IF hi > lo THEN hi - lo ELSE 0) |-> text[lo + k]]

\* Passes of the loop of chunk_text that are followed; no call that moves
\* forward in its text needs as many.
MaxChunks == MaxTextLen + 1

\* chunk_text(text, chunk_size, overlap) called; starts is history: the
\* value of start at each pass of the loop.
ChunkCalls ==
    {[fn |-> "chunk_text", text |-> Text(n), chunk_size |-> chunk_size,
      overlap |-> overlap, start |-> 0, chunks |-> <<>>, starts |-> <<>>,
      status |-> "called"] :
        n \in 0..MaxTextLen, chunk_size \in 1..MaxChunkSize, overlap \in 0..MaxOverlap}

\* if len(text) <= chunk_size: return [text]; otherwise chunks = [],
\* start = 0 and the loop is entered.
ChunkEnter(c) ==
    IF Len(c.text) <= c.chunk_size
    THEN [c EXCEPT !.chunks = <<c.text>>, !.status = "returned"]
    ELSE [c EXCEPT !.status = "running"]

\* Faulty variant of ChunkLoop: the next chunk starts after the end of this
\* one plus the overlap.
ChunkLoopGap(c) ==
    IF c.start < Len(c.text)
    THEN [c EXCEPT !.chunks = Append(@, PySlice(c.text, c.start, c.start + c.chunk_size)),
                   !.starts = Append(@, c.start),
                   !.start = (c.start + c.chunk_size) + c.overlap]
    ELSE [c EXCEPT !.status = "returned"]

\* One test of while start < len(text): a pass of the loop (end = start +
\* chunk_size, the chunk text[start:end] is appended, start = end - overlap)
\* or the return of chunks.
ChunkLoop(c) ==
    IF c.start < Len(c.text)
    THEN [c EXCEPT !.chunks = Append(@, PySlice(c.text, c.start, c.start + c.chunk_size)),
                   !.starts = Append(@, c.start),
                   !.start = (c.start + c.chunk_size) - c.overlap]
    ELSE [c EXCEPT !.status = "returned"]

\* One step of chunk_text.
ChunkText ==
    /\ unit.fn = "chunk_text"
    /\ \/ /\ unit.status = "called"
          /\ unit' = ChunkEnter(unit)
       \/ /\ unit.status = "running"
          /\ Len(unit.chunks) < MaxChunks
          /\ unit' = ChunkLoop(unit)
    /\ UNCHANGED pipeline_vars

\* The checkpoint file as a run left it that processed rows 0 .. w of the
\* source table.
EarlierCheckpoint(w) == JsonDump(NewCheckpoint([k \in 1..(w + 1) |-> k - 1], 0))

\* One of two incremental runs with a watermark column, about to read the
\* checkpoint file.
SharingRun ==
    [pc |-> "load", last_watermark |-> None, df |-> <<>>,
     new_checkpoint |-> EmptyCheckpoint, overlapped |-> FALSE]

\* Two processes about to call run(incremental=True) with the same
\* checkpoint file, on a table of n rows.  last_saved, last_writer and
\* covered are history: the last checkpoint completely written, the run
\* that wrote last, and the rows a run has extracted (with those behind the
\* checkpoint the file holds at first); overlapped says that the other run
\* wrote the file while this one had it open.
SharedCheckpointCall(n, file, saved, covered) ==
    [fn |-> "shared_checkpoint", source |-> 0..(n - 1), file |-> file,
     runs |-> [r \in Runs |-> SharingRun],
     last_saved |-> saved, last_writer |-> "none", covered |-> covered]

\* The file is absent, or holds the checkpoint of an earlier run.
SharedCheckpointCalls ==
    {SharedCheckpointCall(n, AbsentFile, EmptyCheckpoint, {}) : n \in 0..MaxRows}
    \cup UNION {{SharedCheckpointCall(n, JsonFile(EarlierCheckpoint(w)),
                                      EarlierCheckpoint(w), 0..w) : w \in 0..(n - 1)} :
                    n \in 1..MaxRows}

\* checkpoint = self.load_checkpoint(); last_watermark = checkpoint.get(...)
SharedLoad(u, r) ==
    [u EXCEPT !.runs[r].pc = "extract",
              !.runs[r].last_watermark =
                  DictGet(LoadCheckpointResult(u.file).checkpoint, "last_watermark")]

\* The extraction of run r returns df; an empty df ends the run, any other
\* is embedded and indexed, which touches no checkpoint file, and the run
\* comes to save_checkpoint.
SharedExtract(u, r, df) ==
    [u EXCEPT !.runs[r].pc = IF AfterExtract(df) = "done" THEN "done" ELSE "save",
              !.runs[r].df = df,
              !.covered = @ \cup Range(df)]

\* save_checkpoint of run r up to open(self.checkpoint_file, 'w').
SharedSaveOpen(u, r) ==
    [u EXCEPT !.runs[r].pc = "save_write",
              !.runs[r].new_checkpoint =
                  NewCheckpoint(u.runs[r].df, IF r = "A" THEN 1 ELSE 2),
              !.runs[r].overlapped = FALSE,
              !.file = OpenForWrite(u.file)]

\* The runs after run r wrote: r is done, and a run that has the file open
\* has been written over.
AfterWriteOf(runs, r) ==
    [o \in Runs |->
        IF o = r THEN [runs[o] EXCEPT !.pc = "done"]
        ELSE IF runs[o].pc = "save_write" THEN [runs[o] EXCEPT !.overlapped = TRUE]
        ELSE runs[o]]

\* Faulty variant of SharedSaveWrite: a checkpoint whose watermark is below
\* the one last saved is not written, and the one last saved is put back.
SharedSaveWriteIfHigher(u, r, whole) ==
    LET doc == WrittenFile(u.runs[r].new_checkpoint).data
        lower == /\ u.last_saved # EmptyCheckpoint
                 /\ doc.last_watermark.n < u.last_saved.last_watermark.n
    IN [u EXCEPT !.runs = AfterWriteOf(@, r),
                 !.file = IF ~whole THEN CorruptFile
                          ELSE IF lower THEN JsonFile(u.last_saved) ELSE JsonFile(doc),
                 !.last_saved = IF whole /\ ~lower THEN doc ELSE @,
                 !.last_writer = r]

\* json.dump of run r writes its document from the start of the file.  The
\* file then holds the checkpoint of the run that wrote last; when the
\* other run wrote in between, what it wrote may remain after the end of
\* the document (whole = FALSE), and json.load rejects the file.
SharedSaveWrite(u, r, whole) ==
    [u EXCEPT !.runs = AfterWriteOf(@, r),
              !.file = IF whole THEN WrittenFile(u.runs[r].new_checkpoint)
                       ELSE CorruptFile,
              !.last_saved = IF whole THEN WrittenFile(u.runs[r].new_checkpoint).data
                             ELSE @,
              !.last_writer = r]

\* One step of one of the two runs, or a row appended to the source table.
SharedCheckpoint ==
    /\ unit.fn = "shared_checkpoint"
    /\ \/ \E r \in Runs :
            \/ /\ unit.runs[r].pc = "load"
               /\ unit' = SharedLoad(unit, r)
            \/ /\ unit.runs[r].pc = "extract"
               /\ \E df \in extract_data(unit.source, TRUE, unit.runs[r].last_watermark) :
                    unit' = SharedExtract(unit, r, df)
            \/ /\ unit.runs[r].pc = "save"
               /\ unit' = SharedSaveOpen(unit, r)
            \/ /\ unit.runs[r].pc = "save_write"
               /\ \E whole \in BOOLEAN :
                    /\ whole \/ unit.runs[r].overlapped
                    /\ unit' = SharedSaveWrite(unit, r, whole)
       \/ /\ Cardinality(unit.source) < MaxRows
          /\ unit' = [unit EXCEPT !.source = @ \cup {Cardinality(@)}]
    /\ UNCHANGED pipeline_vars

\* The methods of SnowflakeExtractor that run a query.
QueryMethods == {"extract_data", "get_row_count", "get_latest_watermark"}

\* The methods of SnowflakeExtractor.
ExtractorMethods == QueryMethods \cup {"connect", "disconnect", "__enter__", "__exit__"}

\* A SnowflakeExtractor just constructed: self.connection = None.  log is
\* history: for every call, whether it called connect and the state of the
\* connection its query was made on ("none" when it made no query).
ExtractorCalls ==
    {[fn |-> "extractor", connection |-> "none", log |-> <<>>]}

\* connect(): self.connection is assigned when the connector answers;
\* when it raises, the attribute is left as it was.
connect(connection, ok) == IF ok THEN "open" ELSE connection

\* if not self.connection: self.connect() -- whether connect is called.  A
\* connection object is truthy, closed or not.
EnsureConnected(connection) == connection = "none"

\* One entry of the log of an extractor.
ExtractorEvent(method, connects, queried_on) ==
    [method |-> method, connects |-> connects, queried_on |-> queried_on]

\* extract_data, get_row_count or get_latest_watermark: connect if there is
\* no connection object, then cursor() and execute() on self.connection;
\* when connect raises, no query is made.
QueryCall(c, method, ok) ==
    LET connects == EnsureConnected(c.connection)
        connection == IF connects THEN connect(c.connection, ok) ELSE c.connection
    IN [c EXCEPT !.connection = connection,
                 !.log = Append(@, ExtractorEvent(method, connects,
                                    IF connects /\ ~ok THEN "none" ELSE connection))]

\* connect or __enter__.
ConnectCall(c, method, ok) ==
    [c EXCEPT !.connection = connect(c.connection, ok),
              !.log = Append(@, ExtractorEvent(method, TRUE, "none"))]

\* disconnect or __exit__.
DisconnectCall(c, method) ==
    [c EXCEPT !.connection = disconnect(c.connection),
              !.log = Append(@, ExtractorEvent(method, FALSE, "none"))]

\* One method call on the extractor.
ExtractorCall ==
    /\ unit.fn = "extractor"
    /\ Len(unit.log) < MaxExtractorCalls
    /\ \E method \in ExtractorMethods, ok \in BOOLEAN :
         unit' = IF method \in QueryMethods THEN QueryCall(unit, method, ok)
                 ELSE IF method \in {"connect", "__enter__"} THEN ConnectCall(unit, method, ok)
                 ELSE DisconnectCall(unit, method)
    /\ UNCHANGED pipeline_vars

\* Every component method, called once with every argument of the bounds.
UnitInit ==
    /\ PipelineInit
    /\ \/ unit \in EmbedCalls
       \/ unit \in IndexCalls
       \/ unit \in ExtractCalls
       \/ unit \in CreateIndexCalls
       \/ unit \in UpsertCalls
       \/ unit \in ChunkCalls
       \/ unit \in SharedCheckpointCalls
       \/ unit \in ExtractorCalls

UnitNext ==
    \/ GenerateEmbeddingsBatch
    \/ IndexDocuments
    \/ ExtractDataCall
    \/ CreateIndexCall
    \/ UpsertRace
    \/ ChunkText
    \/ SharedCheckpoint
    \/ ExtractorCall

UnitSpec == UnitInit /\ [][UnitNext]_vars

----------------------------------------------------------------------------
(* Properties.                                                             *)

\* The run has ended, by returning or by raising.
Ended == pc \in {"done", "raised"}

\* extract_data has returned its data frame to run.
ExtractionReturned ==
    /\ pc \in {"embed", "create_index", "index", "save", "save_write", "count",
               "done", "raised"}
    /\ calls.query = 2
    /\ \A k \in 1..Len(stats.errors) : stats.errors[k] # "extract_data failed"

\* The run raised in the Extracting or Embedding step: after it connected
\* and before any call to the index backend.
FailedInExtractOrEmbed ==
    /\ pc = "raised"
    /\ calls.connect = 1
    /\ calls.get_index = 0

\* C1: over an append-only source with unique increasing watermarks, after
\* any sequence of incremental runs with no reset and no recreate_index,
\* every source row whose watermark is at most the persisted last_watermark
\* is in the index.
C1_NoRowLostBehindWatermark ==
    (pc \in Rest /\ checkpoint_file.state = "json") =>
        \A r \in source :
            r <= checkpoint_file.data.last_watermark.n => r \in index.docs

\* C2: a run that fails in extraction or embedding records the error in
\* stats.errors, raises, and leaves the persisted checkpoint as it was before
\* the run, so the next incremental run extracts the same window.
C2_ExtractEmbedFailureKeepsCheckpoint ==
    FailedInExtractOrEmbed =>
        /\ Len(stats.errors) = 1
        /\ stats.errors[1] \in {"connect failed", "get_row_count failed",
                                "extract_data failed", "embedding failed"}
        /\ checkpoint_file = file_at_start
        /\ calls.save = 0
        /\ run.incremental =>
             extract_data(source, run.watermark_column,
                          DictGet(load_checkpoint(checkpoint_file), "last_watermark"))
               = extract_data(source, run.watermark_column, run.last_watermark)

C2_Witness ==
    /\ pc = "raised"
    /\ stats.errors = <<"embedding failed">>
    /\ run.incremental
    /\ file_at_start.state = "json"

\* C3: whenever run() raises, for any reason, that run has written no
\* checkpoint: the persisted checkpoint is what it was before the run.
C3_NoCheckpointWhenRunRaises ==
    pc = "raised" => checkpoint_file = file_at_start

\* C4: a run calls save_checkpoint if and only if it is incremental, a
\* watermark column is configured, extraction returned at least one row and
\* the embedding and indexing steps returned; at most once per run; and a
\* run that is not incremental or has no watermark column never modifies the
\* checkpoint.
C4_SaveExactlyWhenIncrementalAndProcessed ==
    /\ calls.save <= 1
    /\ Ended =>
         (calls.save = 1 <=>
            /\ run.incremental
            /\ run.watermark_column
            /\ Len(run.df) >= 1
            /\ run.embedded
            /\ stats.rows_indexed = Len(run.df))
    /\ (pc \notin {"idle", "killed"} /\ ~(run.incremental /\ run.watermark_column)) =>
         checkpoint_file = file_at_start /\ calls.save = 0

C4_Witness ==
    /\ pc = "done"
    /\ calls.save = 1
    /\ run.saved
    /\ checkpoint_file # file_at_start

\* C5: when extraction returns zero rows the run makes no embedding call,
\* creates no index, uploads nothing, leaves the checkpoint alone and
\* returns statistics with zero rows extracted, embedded and indexed,
\* without raising.
C5_EmptyExtractionDoesNothing ==
    (ExtractionReturned /\ Len(run.df) = 0) =>
        /\ pc = "done"
        /\ calls.embed = 0
        /\ calls.get_index = 0 /\ calls.delete_index = 0 /\ calls.create_index = 0
        /\ calls.upload = 0
        /\ calls.save = 0
        /\ checkpoint_file = file_at_start
        /\ stats.rows_extracted = 0 /\ stats.rows_embedded = 0 /\ stats.rows_indexed = 0
        /\ stats.errors = <<>>

C5_Witness ==
    /\ pc = "done"
    /\ ExtractionReturned
    /\ Len(run.df) = 0
    /\ source # {}
    /\ file_at_start.state = "json"

\* C6: the checkpoint is never partially written: after a write that failed
\* partway, or a process terminated at any point of a run, load_checkpoint
\* returns the last checkpoint that was completely saved.
C6_CheckpointNeverPartial ==
    pc \in Rest => load_checkpoint(checkpoint_file) = last_saved

\* C7: load_checkpoint never raises; it returns the persisted checkpoint
\* when the file exists and parses, the empty checkpoint when the file is
\* absent or unreadable, and it does not modify the file.
C7_LoadNeverRaises ==
    /\ pc \in {"load", "connect"} => checkpoint_file = file_at_start
    /\ (pc = "connect" /\ run.incremental) =>
         run.checkpoint = IF file_at_start.state = "json"
                          THEN file_at_start.data
                          ELSE EmptyCheckpoint
    /\ pc = "raised" =>
         \A k \in 1..Len(stats.errors) : stats.errors[k] # "load_checkpoint failed"
    /\ (pc = "raised" /\ run.incremental /\ run.table_name) => calls.connect = 1

C7_Witness ==
    /\ pc = "connect"
    /\ run.incremental
    /\ file_at_start.state = "corrupt"
    /\ run.checkpoint = EmptyCheckpoint

\* C8 as stated: a successful save_checkpoint followed by load_checkpoint
\* returns the structure that was saved.
C8_RoundTripIsIdentity ==
    (run.saved /\ pc \in {"count", "done", "raised"}) =>
        load_checkpoint(checkpoint_file) = run.new_checkpoint

\* C8, amended: a successful save_checkpoint followed by load_checkpoint
\* returns the most recently saved checkpoint (whatever the file held
\* before) with its JSON-native values, the last_run string and the
\* rows_processed integer, unchanged, and the pandas scalar that run stores
\* as last_watermark replaced by its str() text.
C8_RoundTripStringifies ==
    (run.saved /\ pc \in {"count", "done", "raised"}) =>
        LET loaded == load_checkpoint(checkpoint_file)
            saved == run.new_checkpoint
        IN /\ loaded.last_run = saved.last_run
           /\ loaded.rows_processed = saved.rows_processed
           /\ saved.last_watermark.kind = "np"
           /\ loaded.last_watermark = Str(saved.last_watermark.n)
           /\ saved.rows_processed = PyInt(Len(run.df))
           /\ saved.last_run = Str(clock)

C8_Witness ==
    /\ run.saved
    /\ pc = "done"
    /\ file_at_start.state = "json"
    /\ file_at_start.data # checkpoint_file.data
    /\ load_checkpoint(checkpoint_file).last_watermark = Str(1)

\* C9: reset_checkpoint removes the stored checkpoint, whether or not one
\* exists: load_checkpoint then returns the empty checkpoint, and the
\* incremental run that follows extracts every row of the source.
C9_ResetRemovesCheckpoint ==
    /\ pc = "idle" =>
         /\ checkpoint_file.state = "absent"
         /\ load_checkpoint(checkpoint_file) = EmptyCheckpoint
    /\ (pc \in {"load", "connect", "row_count", "extract"} /\ run.after_reset) =>
         checkpoint_file.state = "absent"
    /\ (pc \in {"connect", "row_count", "extract"} /\ run.incremental
          /\ (run.after_reset \/ file_at_start.state = "absent")) =>
         /\ run.checkpoint = EmptyCheckpoint
         /\ \A df \in extract_data(source, run.watermark_column, run.last_watermark) :
                Range(df) = source

C9_Witness ==
    /\ pc = "extract"
    /\ run.incremental
    /\ run.watermark_column
    /\ run.after_reset
    /\ clock = 2
    /\ index.docs # {}
    /\ Cardinality(source) = 2

\* C10: a failure to write the checkpoint does not abort the run:
\* save_checkpoint does not raise, the run goes on to query the document
\* count, and when that query answers it returns its statistics with an
\* empty errors list.
C10_SaveFailureDoesNotAbort ==
    (calls.save = 1 /\ ~run.saved /\ pc # "save_write") =>
        /\ pc \in {"count", "done", "raised"}
        /\ pc = "raised" => stats.errors = <<"get_document_count failed">>
        /\ pc = "done" =>
             /\ stats.errors = <<>>
             /\ calls.count = 1
             /\ stats.total_documents_in_index = Cardinality(index.docs)

C10_Witness ==
    /\ pc = "done"
    /\ calls.save = 1
    /\ ~run.saved
    /\ checkpoint_file.state = "corrupt"
    /\ stats.errors = <<>>
    /\ stats.total_documents_in_index >= 0

\* Provider calls, failed provider calls and sleeps of the component call
\* of generate_embeddings_batch for the batch that starts at offset o.
EmbedCallsAt(o) ==
    Cardinality({k \in 1..Len(unit.log) : unit.log[k].at = o /\ unit.log[k].ev # "sleep"})
EmbedFailsAt(o) ==
    Cardinality({k \in 1..Len(unit.log) : unit.log[k].at = o /\ unit.log[k].ev = "fail"})
EmbedSleepsAt(o) ==
    Cardinality({k \in 1..Len(unit.log) : unit.log[k].at = o /\ unit.log[k].ev = "sleep"})

\* The offsets at which the batches of a list of n items start.
BatchOffsets(n, batch_size) == {o \in 0..(n - 1) : o % batch_size = 0}

\* C11: in generate_embeddings_batch the retry counter counts the failures
\* of the current batch only (it is zero when a batch starts); a batch that
\* failed k times and then succeeded has k <= max_retries, took exactly
\* k + 1 provider calls, the last one the success, and its vectors are in
\* the list; the call gives up only on a batch that failed max_retries + 1
\* times itself.
C11_RetriesCountedPerBatch ==
    unit.fn = "generate_embeddings_batch" =>
        /\ unit.status = "running" => unit.retry_count = EmbedFailsAt(unit.i)
        /\ unit.status = "raised" => EmbedFailsAt(unit.i) = unit.max_retries + 1
        /\ \A o \in BatchOffsets(Len(unit.texts), unit.batch_size) :
             o < unit.i =>
               /\ EmbedFailsAt(o) <= unit.max_retries
               /\ EmbedCallsAt(o) = EmbedFailsAt(o) + 1
               /\ \A k \in 1..Len(unit.log) :
                    (unit.log[k].at = o /\ unit.log[k].ev = "ok") =>
                       \A j \in (k + 1)..Len(unit.log) : unit.log[j].at # o
               /\ \A k \in 1..Len(Slice(unit.texts, o, unit.batch_size)) :
                    unit.embeddings[o + k] = Embedding(unit.texts[o + k])

\* Two batches of one call each failed max_retries >= 1 times and then
\* succeeded, and the list was returned.
C11_Witness ==
    /\ unit.fn = "generate_embeddings_batch"
    /\ unit.status = "returned"
    /\ unit.max_retries >= 1
    /\ \E o1, o2 \in BatchOffsets(Len(unit.texts), unit.batch_size) :
         /\ o1 < o2
         /\ EmbedFailsAt(o1) = unit.max_retries
         /\ EmbedFailsAt(o2) = unit.max_retries

\* C12: generate_embeddings_batch never calls the provider more than
\* max_retries + 1 times for a batch; every failed call but the last one
\* allowed is followed by one sleep of retry_delay and then by the next call
\* for the same batch, and there is no other sleep; when a batch has failed
\* max_retries + 1 times the call raises, with max_retries sleeps for that
\* batch and none after the last failure.
C12_GivesUpAfterMaxRetries ==
    unit.fn = "generate_embeddings_batch" =>
        /\ \A o \in BatchOffsets(Len(unit.texts), unit.batch_size) :
             EmbedCallsAt(o) <= unit.max_retries + 1
        /\ \A k \in 1..Len(unit.log) :
             /\ unit.log[k].ev = "sleep" =>
                  /\ unit.log[k].delay = unit.retry_delay
                  /\ k > 1 /\ unit.log[k - 1].ev = "fail" /\ unit.log[k - 1].at = unit.log[k].at
                  /\ k < Len(unit.log) =>
                       unit.log[k + 1].ev # "sleep" /\ unit.log[k + 1].at = unit.log[k].at
             /\ (unit.log[k].ev = "fail" /\ k < Len(unit.log)) => unit.log[k + 1].ev = "sleep"
        /\ unit.status = "raised" <=> EmbedFailsAt(unit.i) = unit.max_retries + 1
        /\ unit.status = "raised" =>
             /\ EmbedCallsAt(unit.i) = unit.max_retries + 1
             /\ EmbedSleepsAt(unit.i) = unit.max_retries
             /\ unit.log[Len(unit.log)].ev = "fail"

\* The second batch failed max_retries + 1 >= 2 times and the call raised.
C12_Witness ==
    /\ unit.fn = "generate_embeddings_batch"
    /\ unit.status = "raised"
    /\ unit.max_retries >= 1
    /\ unit.i > 0
    /\ EmbedFailsAt(unit.i) = unit.max_retries + 1

\* C13: the list generate_embeddings_batch returns has one vector per text,
\* and vector k is the vector of text k.
C13_OrderPreserved ==
    (unit.fn = "generate_embeddings_batch" /\ unit.status = "returned") =>
        /\ Len(unit.embeddings) = Len(unit.texts)
        /\ \A k \in 1..Len(unit.texts) : unit.embeddings[k] = Embedding(unit.texts[k])

\* A list of the longest length, with different texts, was embedded in more
\* than one batch (the last one short) after at least one retry.
C13_Witness ==
    /\ unit.fn = "generate_embeddings_batch"
    /\ unit.status = "returned"
    /\ Len(unit.texts) = MaxItems
    /\ unit.batch_size = 2
    /\ unit.texts[1] # unit.texts[2]
    /\ \E k \in 1..Len(unit.log) : unit.log[k].ev = "fail"
    /\ Len(unit.embeddings) = MaxItems

\* C14: when a batch has used up its retries, run has raised, the data
\* frame has no embedding column, only the batches before the failed one
\* were embedded, and the run has made no index call (get, delete, create,
\* upload) and counted no row as embedded or indexed.
C14_EmbeddingAllOrNothing ==
    run.retry_count > max_retries =>
        /\ pc = "raised"
        /\ ~run.embedded
        /\ Len(run.embeddings) = run.i /\ run.i < Len(run.df)
        /\ calls.get_index = 0 /\ calls.delete_index = 0
        /\ calls.create_index = 0 /\ calls.upload = 0
        /\ stats.rows_embedded = 0 /\ stats.rows_indexed = 0
        /\ stats.total_documents_in_index = -1

\* The second batch of a run used up its retries.
C14_Witness ==
    /\ run.retry_count > max_retries
    /\ pc = "raised"
    /\ run.i > 0

\* ceil(n / batch_size).
CeilDiv(n, batch_size) == (n + batch_size - 1) \div batch_size

\* C15: when index_documents ends, indexed_count + failed_count is the
\* number of documents it was given, whatever the backend acknowledged and
\* whichever upload calls raised.
C15_CountsAddUp ==
    (unit.fn = "index_documents" /\ unit.status = "returned") =>
        unit.indexed_count + unit.failed_count = Len(unit.documents)

\* Three documents went in two batches; one call raised, the other was
\* answered with one document acknowledged and one not.
C15_Witness ==
    /\ unit.fn = "index_documents"
    /\ unit.status = "returned"
    /\ Len(unit.documents) = MaxItems
    /\ unit.batch_size = 2
    /\ \E k \in 1..Len(unit.log) : unit.log[k].outcome = "raised"
    /\ unit.indexed_count = 1
    /\ unit.failed_count = MaxItems - 1

\* C16: the k-th upload call of index_documents carries the slice of the
\* documents that starts at offset (k - 1) * batch_size, of batch_size
\* documents except possibly the last; at the end there were
\* ceil(n / batch_size) calls and document j went in call
\* (j - 1) div batch_size + 1 and in no other.
C16_BatchesAreConsecutiveSlices ==
    unit.fn = "index_documents" =>
        /\ \A k \in 1..Len(unit.log) :
             /\ unit.log[k].at = (k - 1) * unit.batch_size
             /\ unit.log[k].batch = Slice(unit.documents, unit.log[k].at, unit.batch_size)
             /\ Len(unit.log[k].batch) >= 1
             /\ \/ Len(unit.log[k].batch) = unit.batch_size
                \/ /\ k = CeilDiv(Len(unit.documents), unit.batch_size)
                   /\ Len(unit.log[k].batch) = Len(unit.documents) - unit.log[k].at
        /\ unit.status = "returned" =>
             /\ Len(unit.log) = CeilDiv(Len(unit.documents), unit.batch_size)
             /\ \A j \in 1..Len(unit.documents) :
                  unit.log[((j - 1) \div unit.batch_size) + 1].batch[((j - 1) % unit.batch_size) + 1]
                      = unit.documents[j]

\* Three documents with batch_size 2 went in two calls, the last one short.
C16_Witness ==
    /\ unit.fn = "index_documents"
    /\ unit.status = "returned"
    /\ Len(unit.documents) = MaxItems
    /\ unit.batch_size = 2
    /\ Len(unit.log) = CeilDiv(MaxItems, 2)
    /\ Len(unit.log[Len(unit.log)].batch) < 2

\* C17: index_documents never raises; an upload call that raises adds the
\* length of its batch to failed_count and leaves indexed_count and the
\* counts of the earlier batches as they were; the next call, if any, is
\* for the next batch, and every batch has been submitted when the method
\* ends.
C17_ThrowingBatchCountsFailedAndGoesOn ==
    unit.fn = "index_documents" =>
        /\ unit.status # "raised"
        /\ \A k \in 1..Len(unit.log) :
             unit.log[k].outcome = "raised" =>
               /\ unit.log[k].failed_count =
                    (IF k = 1 THEN 0 ELSE unit.log[k - 1].failed_count) + Len(unit.log[k].batch)
               /\ unit.log[k].indexed_count =
                    (IF k = 1 THEN 0 ELSE unit.log[k - 1].indexed_count)
               /\ k < Len(unit.log) => unit.log[k + 1].at = unit.log[k].at + unit.batch_size
               /\ k = Len(unit.log) =>
                    /\ unit.i = unit.log[k].at + unit.batch_size
                    /\ unit.failed_count = unit.log[k].failed_count
                    /\ unit.indexed_count = unit.log[k].indexed_count
        /\ unit.status = "returned" =>
             Len(unit.log) = CeilDiv(Len(unit.documents), unit.batch_size)

\* The second of three upload calls raised, after a batch that was
\* acknowledged and before one that was acknowledged.
C17_Witness ==
    /\ unit.fn = "index_documents"
    /\ unit.status = "returned"
    /\ Len(unit.log) = 3
    /\ unit.log[1].indexed_count = 1
    /\ unit.log[2].outcome = "raised"
    /\ unit.log[3].outcome = "answered"
    /\ unit.indexed_count = 2
    /\ unit.failed_count = 1

\* C18: a run in which documents failed to index does not raise because of
\* them, and when it returns its statistics differ from those of the same
\* run without failures, that is, from rows_indexed = len(df) and
\* total_documents_in_index = the size of the index with every document of
\* the run in it.
C18_PartialFailureVisibleInStats ==
    run.failed_count > 0 =>
        /\ pc = "raised" => stats.errors = <<"get_document_count failed">>
        /\ pc = "done" =>
             \/ stats.rows_indexed # Len(run.df)
             \/ stats.total_documents_in_index # Cardinality(index.docs \cup Range(run.df))

\* C19: extract_data called with a watermark column and a watermark value
\* (any value but None, 0 included) returns exactly the rows whose
\* watermark is greater than the value, in ascending order.
C19_WatermarkFilterStrict ==
    (/\ unit.fn = "extract_data"
     /\ unit.status = "returned"
     /\ unit.watermark_column
     /\ unit.watermark_value.kind # "none") =>
        /\ Range(unit.result) = {r \in unit.rows : r > unit.watermark_value.n}
        /\ Len(unit.result) = Cardinality(Range(unit.result))
        /\ Ascending(unit.result)

\* create_index has run on an index that existed, with recreate = false.
CreateIndexOnExistingKept ==
    /\ unit.fn = "create_index"
    /\ unit.status # "called"
    /\ unit.index.exists
    /\ ~unit.recreate

\* C20, as claimed: create_index on an existing index with recreate = false
\* makes no delete_index call and no create_index call, and leaves the
\* index, its documents and its vector dimension as they were.
C20_NoDeleteNoCreateOnExisting ==
    CreateIndexOnExistingKept =>
        /\ unit.result.delete_index = 0
        /\ unit.result.create_index = 0
        /\ unit.result.index = unit.index

\* C20, amended: create_index on an existing index with recreate = false
\* leaves the index, its documents and its vector dimension as they were and
\* makes no delete_index call; it makes no create_index call and returns
\* when get_index answers, and makes one create_index call, which fails,
\* and raises when get_index raises.
C20_ExistingIndexUntouched ==
    CreateIndexOnExistingKept =>
        /\ unit.result.index = unit.index
        /\ unit.result.delete_index = 0
        /\ unit.get_ok => (unit.result.create_index = 0 /\ unit.status = "returned")
        /\ ~unit.get_ok => (unit.result.create_index = 1 /\ unit.status = "raised")

\* create_index returned on an existing index that holds documents and has
\* another vector dimension than the one asked for.
C20_Witness ==
    /\ CreateIndexOnExistingKept
    /\ unit.status = "returned"
    /\ unit.index.docs # {}
    /\ unit.vector_dimensions # unit.index.vector_dimensions
    /\ unit.result.index.vector_dimensions = unit.index.vector_dimensions

\* create_index has run with recreate = true on an index that existed.
CreateIndexOnExistingRecreated ==
    /\ unit.fn = "create_index"
    /\ unit.status # "called"
    /\ unit.index.exists
    /\ unit.recreate

\* create_index has run on a missing index.
CreateIndexOnMissing ==
    /\ unit.fn = "create_index"
    /\ unit.status # "called"
    /\ ~unit.index.exists

\* C21, as claimed: create_index with recreate = true on an existing index
\* makes one delete_index call and then one create_index call; on a missing
\* index it makes one create_index call and no delete_index call, whatever
\* recreate is.
C21_DeleteThenCreate ==
    /\ CreateIndexOnExistingRecreated =>
         unit.result.log = <<"get_index", "delete_index", "create_index">>
    /\ CreateIndexOnMissing =>
         unit.result.log = <<"get_index", "create_index">>

\* C21, amended: with recreate = true on an existing index that get_index
\* returns, create_index makes one delete_index call and then one
\* create_index call, and when it returns the index is new, empty and of the
\* dimension asked for; when get_index raises it makes one create_index call
\* and no delete_index call, raises, and leaves the index as it was.  On a
\* missing index it makes one create_index call and no delete_index call,
\* whatever recreate is.
C21_DeleteThenCreateWhenFound ==
    /\ (CreateIndexOnExistingRecreated /\ unit.get_ok) =>
         /\ unit.result.log = <<"get_index", "delete_index", "create_index">>
         /\ unit.result.delete_index = 1 /\ unit.result.create_index = 1
         /\ unit.status = "returned" =>
              unit.result.index = SearchIndex(TRUE, {}, unit.vector_dimensions)
         /\ unit.status = "raised" =>
              unit.result.index \in {unit.index, SearchIndex(FALSE, {}, 0)}
    /\ (CreateIndexOnExistingRecreated /\ ~unit.get_ok) =>
         /\ unit.result.log = <<"get_index", "create_index">>
         /\ unit.status = "raised"
         /\ unit.result.index = unit.index
    /\ CreateIndexOnMissing =>
         /\ unit.result.log = <<"get_index", "create_index">>
         /\ unit.result.delete_index = 0 /\ unit.result.create_index = 1
         /\ unit.status = "returned" =>
              unit.result.index = SearchIndex(TRUE, {}, unit.vector_dimensions)
         /\ unit.status = "raised" => unit.result.index = unit.index

\* An index that held documents was deleted and created again with another
\* vector dimension.
C21_Witness ==
    /\ CreateIndexOnExistingRecreated
    /\ unit.status = "returned"
    /\ unit.index.docs # {}
    /\ unit.vector_dimensions # unit.index.vector_dimensions
    /\ unit.result.log = <<"get_index", "delete_index", "create_index">>
    /\ unit.result.index = SearchIndex(TRUE, {}, unit.vector_dimensions)

\* The ids of a set or of a list of documents.
IndexIds(docs) == {d.id : d \in docs}
DocumentIds(documents) == {documents[j].id : j \in 1..Len(documents)}

C23_ChunksCoverText ==
    (/\ unit.fn = "chunk_text"
     /\ unit.status = "returned"
     /\ Len(unit.text) > unit.chunk_size
     /\ unit.overlap < unit.chunk_size) =>
        /\ Len(unit.chunks) = Len(unit.starts)
        /\ unit.starts[1] = 0
        /\ \A k \in 1..Len(unit.chunks) :
             /\ Len(unit.chunks[k]) >= 1
             /\ Len(unit.chunks[k]) <= unit.chunk_size
             /\ \A j \in 1..Len(unit.chunks[k]) :
                  unit.chunks[k][j] = unit.text[unit.starts[k] + j]
             /\ k < Len(unit.chunks) =>
                  unit.starts[k + 1] = unit.starts[k] + (unit.chunk_size - unit.overlap)
        /\ \A p \in 1..Len(unit.text) :
             \E k \in 1..Len(unit.chunks) : unit.text[p] \in Range(unit.chunks[k])

\* The longest text was cut into several chunks that overlap, the last one
\* shorter than chunk_size.
C23_Witness ==
    /\ unit.fn = "chunk_text"
    /\ unit.status = "returned"
    /\ Len(unit.text) = MaxTextLen
    /\ unit.chunk_size = MaxChunkSize
    /\ unit.overlap = MaxChunkSize - 1
    /\ Len(unit.chunks) >= 3
    /\ Len(unit.chunks[Len(unit.chunks)]) < unit.chunk_size

\* C24: chunk_text moves forward in its text: no call takes a pass of its
\* loop at a start that is not beyond the start of the pass before, so that
\* a call with overlap >= chunk_size on a text longer than chunk_size never
\* gets into the loop.
C24_ChunkTextMakesProgress ==
    unit.fn = "chunk_text" =>
        /\ \A k \in 1..(Len(unit.starts) - 1) : unit.starts[k] < unit.starts[k + 1]
        /\ (unit.overlap >= unit.chunk_size /\ Len(unit.text) > unit.chunk_size) =>
             unit.chunks = <<>>

\* C25: a run without a table name has raised with the one error
\* "table_name not configured", has made no external call at all (no
\* checkpoint read, no connection, no query, no embedding call, no index
\* call, no checkpoint write), holds no rows, and has left the checkpoint
\* file as it was.
C25_NoTableNameFailsFirst ==
    ~run.table_name =>
        /\ pc = "raised"
        /\ stats = [InitStats EXCEPT !.errors = <<"table_name not configured">>,
                                     !.end_time = TRUE]
        /\ calls = NoCalls
        /\ run.connection = "none"
        /\ run.df = <<>>
        /\ checkpoint_file = file_at_start

\* An incremental run without a table name was started when a checkpoint
\* existed.
C25_Witness ==
    /\ ~run.table_name
    /\ run.incremental
    /\ pc = "raised"
    /\ checkpoint_file.state = "json"

\* C26, as claimed: after a run that has a watermark column, extracted at
\* least one row and returned, a checkpoint exists, in either mode.
C26_CheckpointExistsAfterRun ==
    (pc = "done" /\ run.watermark_column /\ Len(run.df) > 0) =>
        checkpoint_file.state = "json"

\* C26, amended: after a run that extracted at least one row and returned,
\* if the run was incremental with a watermark column it has called
\* save_checkpoint once, and if that write succeeded the checkpoint file
\* holds the checkpoint of the run; if the run was full, the checkpoint file
\* is as it was before the run and save_checkpoint was not called.
C26_CheckpointAfterIncrementalRun ==
    (pc = "done" /\ Len(run.df) > 0) =>
        /\ (run.incremental /\ run.watermark_column) =>
             /\ calls.save = 1
             /\ run.saved => checkpoint_file = JsonFile(JsonDump(run.new_checkpoint))
        /\ ~run.incremental =>
             /\ calls.save = 0
             /\ checkpoint_file = file_at_start

\* The first incremental run created the checkpoint.
C26_Witness ==
    /\ pc = "done"
    /\ run.incremental /\ run.watermark_column /\ run.saved
    /\ Len(run.df) > 0
    /\ file_at_start = AbsentFile
    /\ checkpoint_file.state = "json"

\* C28: in every state of a run, a provider call has been made only after
\* both queries of the extraction returned rows and the connection was
\* closed; an index call (get, delete, create, upload) only after every row
\* was embedded; an upload only after create_index; the checkpoint save and
\* the document count only after one upload per batch; the document count
\* only after the save of a run that saves; and no save follows the count.
C28_StepsInOrder ==
    /\ calls.query > 0 => calls.connect = 1
    /\ (calls.connect > 0 /\ run.incremental) => calls.load = 1
    /\ calls.embed > 0 =>
         /\ calls.query = 2
         /\ run.connection = "closed"
         /\ Len(run.df) > 0 /\ stats.rows_extracted = Len(run.df)
    /\ calls.get_index + calls.delete_index + calls.create_index + calls.upload > 0 =>
         /\ run.embedded
         /\ Len(run.embeddings) = Len(run.df)
         /\ stats.rows_embedded = Len(run.df)
    /\ calls.upload > 0 => (calls.get_index = 1 /\ index.exists)
    /\ calls.save + calls.count > 0 =>
         /\ calls.upload = CeilDiv(Len(run.df), BatchSize)
         /\ run.indexed_count + run.failed_count = Len(run.df)
         /\ stats.rows_indexed = Len(run.df)
    /\ calls.count > 0 =>
         /\ pc \in {"done", "raised"}
         /\ (run.incremental /\ run.watermark_column) => calls.save = 1
    /\ pc \in {"save", "save_write"} => calls.count = 0

\* An incremental run over the most rows went through every step.
C28_Witness ==
    /\ pc = "done"
    /\ run.incremental /\ run.watermark_column
    /\ Len(run.df) = MaxRows
    /\ calls.load = 1 /\ calls.query = 2 /\ calls.embed >= MaxRows
    /\ calls.upload = CeilDiv(MaxRows, BatchSize)
    /\ calls.save = 1 /\ calls.count = 1
    /\ run.saved

\* The errors a run can raise with.
RunErrors ==
    {"table_name not configured", "connect failed", "get_row_count failed",
     "extract_data failed", "embedding failed", "create_index failed",
     "get_document_count failed"}

\* C29, as claimed: a run that has raised has made no call to the index
\* backend: it raised before the Indexing step.
C29_NoAbortOnceIndexing ==
    pc = "raised" =>
        calls.get_index + calls.delete_index + calls.create_index
            + calls.upload + calls.count = 0

\* C29, amended: a run that has raised carries one error, of the
\* configuration check, the extraction, the embedding, create_index or the
\* document count; if it has made an upload call, it has made one for every
\* batch and the error is that of the document count, so that no failed
\* upload or failed document aborts a run; and a run that raised in
\* create_index made no upload call.
C29_AbortNotFromUpsert ==
    pc = "raised" =>
        /\ \E e \in RunErrors : stats.errors = <<e>>
        /\ calls.upload > 0 =>
             /\ stats.errors = <<"get_document_count failed">>
             /\ calls.upload = CeilDiv(Len(run.df), BatchSize)
             /\ calls.count = 1
        /\ stats.errors = <<"create_index failed">> =>
             (calls.upload = 0 /\ calls.create_index = 1 /\ run.embedded)
        /\ stats.errors = <<"get_document_count failed">> => calls.count = 1

\* Every document of a run failed to index and the run returned.
C29_Witness ==
    /\ pc = "done"
    /\ Len(run.df) = MaxRows
    /\ run.failed_count = MaxRows
    /\ stats.errors = <<>>
    /\ calls.count = 1

\* C30: the connection of a run is open only between __enter__ and the end
\* of the with block (the row count and the extraction query); once a query
\* was made and the block is left, by return or by an exception, the
\* connection is closed; and every provider call and every index call is
\* made with the connection closed.
C30_ConnectionClosedAfterExtraction ==
    /\ run.connection = "open" => pc \in {"row_count", "extract"}
    /\ pc \in {"row_count", "extract"} => run.connection = "open"
    /\ (calls.query > 0 /\ pc \notin {"row_count", "extract"}) => run.connection = "closed"
    /\ calls.embed + calls.get_index + calls.delete_index + calls.create_index
         + calls.upload + calls.count > 0 => run.connection = "closed"

\* The extraction query raised and the connection was closed.
C30_Witness ==
    /\ pc = "raised"
    /\ stats.errors = <<"extract_data failed">>
    /\ calls.query = 2
    /\ run.connection = "closed"

\* C31: the checkpoint a run saves holds, as last_watermark, the largest
\* watermark of the rows that run extracted, whatever the source table holds
\* by then, and as rows_processed the number of rows that run extracted.
C31_CheckpointFromExtractedRows ==
    /\ (calls.save = 1 /\ pc \in {"save_write", "count", "done", "raised"}) =>
         /\ Len(run.df) > 0
         /\ run.new_checkpoint.last_watermark = NpInt(SetMax(Range(run.df)))
         /\ run.new_checkpoint.rows_processed = PyInt(Len(run.df))
         /\ stats.rows_extracted = Len(run.df)
    /\ (run.saved /\ pc \in {"count", "done", "raised"}) =>
         /\ checkpoint_file.state = "json"
         /\ checkpoint_file.data.last_watermark = Str(SetMax(Range(run.df)))
         /\ checkpoint_file.data.rows_processed = PyInt(stats.rows_extracted)

\* A run saved its checkpoint after the source table had grown past the
\* rows it extracted.
C31_Witness ==
    /\ pc = "done"
    /\ run.saved
    /\ Len(run.df) = 1
    /\ Cardinality(source) = 2
    /\ checkpoint_file.data.last_watermark = Str(0)

\* C32: for a text longer than chunk_size and 0 <= overlap < chunk_size,
\* every chunk chunk_text returns except the last one has exactly chunk_size
\* characters; only the last chunk may be shorter.
C32_OnlyLastChunkShorter ==
    (/\ unit.fn = "chunk_text"
     /\ unit.status = "returned"
     /\ Len(unit.text) > unit.chunk_size
     /\ unit.overlap < unit.chunk_size) =>
        \A k \in 1..(Len(unit.chunks) - 1) : Len(unit.chunks[k]) = unit.chunk_size

\* C33, as claimed: the row-count query is not required by the main path:
\* no run is aborted by a get_row_count query that fails.
C33_RowCountFailureIsHarmless ==
    pc = "raised" => stats.errors # <<"get_row_count failed">>

\* C33, amended: the row-count query is read-only and its answer is used
\* for nothing: a query that answers leads to the extraction with the
\* locals, the statistics, the index and the checkpoint as they were; a
\* query that raises aborts the run with that one error, before the
\* extraction, with the index and the checkpoint as they were.
C33_RowCountOnlyLogged ==
    [][pc = "row_count" =>
         \/ pc' = "row_count"
         \/ pc' = "killed"
         \/ /\ pc' = "extract"
            /\ run' = run
            /\ stats' = stats
            /\ index' = index
            /\ checkpoint_file' = checkpoint_file
            /\ source' = source
         \/ /\ pc' = "raised"
            /\ stats'.errors = <<"get_row_count failed">>
            /\ run'.df = <<>>
            /\ calls'.query = 1
            /\ index' = index
            /\ checkpoint_file' = checkpoint_file
            /\ source' = source]_vars

\* The row-count query of an incremental run failed when rows were waiting
\* behind the checkpoint.
C33_Witness ==
    /\ pc = "raised"
    /\ stats.errors = <<"get_row_count failed">>
    /\ run.incremental
    /\ file_at_start.state = "json"
    /\ Cardinality(source) = 2
    /\ calls.embed = 0

C35_RowsBehindWatermarkWereSubmitted ==
    checkpoint_file.state = "json" =>
        \A r \in source :
            r <= checkpoint_file.data.last_watermark.n => r \in submitted

\* The checkpoint covers every row, one run after the other submitted them,
\* and the backend holds none of them.
C35_Witness ==
    /\ pc = "done"
    /\ clock = 2
    /\ checkpoint_file.state = "json"
    /\ checkpoint_file.data.last_watermark = Str(1)
    /\ file_at_start.state = "json"
    /\ submitted = {0, 1}
    /\ index.docs = {}

\* C36: an incremental run with recreate_index, started when a checkpoint
\* exists, does not lose coverage: no step of it takes out of the index a
\* row at or below the watermark of that checkpoint that the run has not
\* extracted, and so will not upload again; with an empty extraction in
\* particular the index stays as it was.
C36_RecreateKeepsCoverage ==
    [][(/\ pc \notin Rest
        /\ run.incremental
        /\ run.recreate_index
        /\ file_at_start.state = "json") =>
           /\ \A r \in index.docs \ Range(run.df) :
                  r <= file_at_start.data.last_watermark.n => r \in index'.docs
           /\ (pc = "extract" /\ pc' = "done") => index' = index]_vars

\* C37, as claimed: under any interleaving of two incremental runs that
\* share one checkpoint file, the last_watermark of a completely written
\* checkpoint is never below that of the one written before it.
C37_SharedWatermarkNeverDecreases ==
    [][(/\ unit.fn = "shared_checkpoint"
        /\ unit.last_saved # EmptyCheckpoint
        /\ unit'.last_saved # unit.last_saved) =>
           unit'.last_saved.last_watermark.n >= unit.last_saved.last_watermark.n]_vars

\* C37, amended: two runs that share a checkpoint file are not coordinated
\* and the run that writes last wins: once no run is writing, the file
\* holds the checkpoint of the run that wrote last, with the largest
\* watermark of the rows that run extracted, whatever the other run had
\* saved, or, if the other run wrote while this one had the file open,
\* possibly text that does not parse.  A run never writes a watermark at or
\* below the one it loaded, and every source row at or below the watermark
\* of a complete file has been extracted by a run, so a lower watermark
\* makes the next run extract rows again and skips none.
C37_LastWriterWins ==
    unit.fn = "shared_checkpoint" =>
        /\ \A r \in Runs :
             (/\ unit.last_writer = r
              /\ \A o \in Runs : unit.runs[o].pc # "save_write") =>
                 /\ unit.file \in {WrittenFile(unit.runs[r].new_checkpoint), CorruptFile}
                 /\ unit.file.state = "json" =>
                      unit.file.data.last_watermark = Str(SetMax(Range(unit.runs[r].df)))
                 /\ ~unit.runs[r].overlapped => unit.file.state = "json"
        /\ \A r \in Runs :
             (unit.runs[r].pc \in {"save", "save_write"} /\ Truthy(unit.runs[r].last_watermark)) =>
                 SetMax(Range(unit.runs[r].df)) > unit.runs[r].last_watermark.n
        /\ unit.file.state = "json" =>
             \A row \in unit.source :
                 row <= unit.file.data.last_watermark.n => row \in unit.covered

\* Both runs have saved, and the file holds a watermark below the largest
\* one a run saved: the run that extracted first wrote last.
C37_Witness ==
    /\ unit.fn = "shared_checkpoint"
    /\ \A r \in Runs : unit.runs[r].pc = "done" /\ unit.runs[r].df # <<>>
    /\ unit.file.state = "json"
    /\ \E r \in Runs :
         unit.file.data.last_watermark.n < SetMax(Range(unit.runs[r].df))

\* C38: the extractor never makes a query on a connection it has closed:
\* after disconnect(), or after leaving the context manager, a later
\* extract_data, get_row_count or get_latest_watermark call on the same
\* extractor first establishes a new connection.
C38_NoQueryOnClosedConnection ==
    unit.fn = "extractor" =>
        \A k \in 1..Len(unit.log) :
            /\ unit.log[k].queried_on # "closed"
            /\ (/\ unit.log[k].method \in QueryMethods
                /\ k > 1
                /\ unit.log[k - 1].method \in {"disconnect", "__exit__"}) =>
                   unit.log[k].connects

====
